---- MODULE Spec2Model ----
(***************************************************************************)
(* Model of the UWB racing tracker: the UDP receive thread of              *)
(* src/network.py (UDPReceiver) writing the shared tag table, the render   *)
(* tick of src/matplotlib_renderer.py (MatplotlibRenderer.render_frame)    *)
(* reading it, the caller of stop(), and a wall clock in whole seconds.    *)
(* The two threads share no lock in the source, so every statement that    *)
(* touches the tag table is a step of its own.                             *)
(***************************************************************************)
EXTENDS Integers, Sequences, FiniteSets, TLC

(* ------------------------------ bounds --------------------------------- *)
NumTags == 4            \* len(self.tags): size of the tag table
MaxPackets == 2         \* datagrams that arrive in one behaviour
MaxElapsed == 2         \* seconds the clock advances after construction
MaxStops == 2           \* calls of stop() in one behaviour
MaxFrames == 1          \* render ticks in one behaviour
HistoryCap == 2         \* cap of a tag's position history
MaxBoard == 2           \* longest ranking the race collaborator returns
MaxScale == 2           \* largest pixels-per-centimetre scale tried
MaxCoord == 2           \* largest centimetre coordinate handed to cm_to_pixels

(* ------------------------- program constants --------------------------- *)
OneSecond == 1          \* the 1.0 of the rate window, in clock units
DefaultTimeout == 2     \* is_connected(timeout=2)
AnchorCountGood == 4    \* tag.anchor_count = 4
RssiLen == 8            \* [0] * 8
\* time.time() at construction: any value past the timeouts
StartTime == DefaultTimeout + OneSecond + OneSecond

VARIABLES
    tags,               \* self.tags: the shared tag table
    running,            \* self.running
    packets_received,   \* self.packets_received
    packets_per_second, \* self.packets_per_second
    last_packet_time,   \* self.last_packet_time
    last_second,        \* self.last_second
    second_counter,     \* self.second_counter
    error_count,        \* self.error_count
    sock_closed,        \* whether self.sock has been closed
    ipc,                \* position of the receive thread
    msg,                \* the datagram the receive thread is handling
    tagsBefore,         \* the tag table when that datagram was received
    arrivals,           \* log of the datagrams received so far
    now,                \* time.time()
    spc,                \* position of the caller inside stop()
    stop_calls,         \* completed calls of stop()
    closed_in_recv,     \* the socket was closed while a receive was pending
    rpc,                \* position of the render thread inside render_frame
    ri,                 \* index of the tag the render loop is at
    query,              \* collaborator answers for the tag being drawn
    frame,              \* tag layers drawn in the current tick
    lb,                 \* ranking returned to the current tick
    panel,              \* leaderboard panel lines of the current tick
    frames,             \* completed render ticks
    collision_infos,    \* collision answers given to the current leaderboard
    scale_params,       \* self.cm2p, self.x_offset, self.y_offset
    world,              \* centimetre points handed to cm_to_pixels
    pixels              \* the pixel points it returned for them

recvVars == <<running, packets_received, packets_per_second, last_packet_time,
              last_second, second_counter, error_count, sock_closed>>
ingestVars == <<ipc, msg, tagsBefore, arrivals>>
stopVars == <<spc, stop_calls, closed_in_recv>>
renderVars == <<rpc, ri, query, frame, lb, panel, frames, collision_infos>>
mapVars == <<scale_params, world, pixels>>
vars == <<tags, recvVars, ingestVars, now, stopVars, renderVars, mapVars>>

TagIds == 0 .. (NumTags - 1)

(* ----------------------------- datagrams ------------------------------- *)
RangeSample == <<10, 20, 30, 40>>
RssiSample == <<1, 2, 3, 4>>
ZeroRssi == [i \in 1 .. RssiLen |-> 0]

\* A datagram: undecodable bytes, text that is not a JSON record, or a JSON
\* record whose id, range and rssi fields may each be missing.  The ids sent
\* are -1, a tag that has a fixed position, the last tag of the table and
\* the first id past the table.
PktIds == {-1, 1, NumTags - 1, NumTags}
Records == [kind : {"record"}, has_id : BOOLEAN, id : PktIds,
            has_range : BOOLEAN, has_rssi : BOOLEAN]
Malformed == [kind : {"bad_utf8", "bad_json"}, has_id : {FALSE}, id : {-1},
              has_range : {FALSE}, has_rssi : {FALSE}]
Datagrams == {m \in Records : /\ m.has_id \/ m.id = -1
                              /\ m.has_range = m.has_rssi
                              /\ (m.id \notin 0 .. (NumTags - 1) \/ ~m.has_id) => m.has_range}
             \cup Malformed
NoMsg == [kind |-> "none", has_id |-> FALSE, id |-> -1,
          has_range |-> FALSE, has_rssi |-> FALSE]

\* data.get('id', -1)
PktId(m) == IF m.has_id THEN m.id ELSE -1
\* data.get('range', [])
PktRangeDropped(m) == <<>>
PktRange(m) == IF m.has_range THEN RangeSample ELSE <<>>
\* data.get('rssi', [0] * 8)
PktRssiEmptyDefault(m) == IF m.has_rssi THEN RssiSample ELSE <<>>
PktRssi(m) == IF m.has_rssi THEN RssiSample ELSE ZeroRssi

\* 0 <= tag_id < len(self.tags)
InRangeNoLower(id) == id < NumTags
InRange(id) == 0 <= id /\ id < NumTags

\* self.tags[tag_id]: a Python list index, negative indices count from the end
TagIndex(id) == IF id < 0 THEN NumTags + id ELSE id

\* positions = {0: (50, 50), 1: (100, 100), 2: (150, 150)}
positionsForAll == [i \in 0 .. NumTags |-> <<50 * (i + 1), 50 * (i + 1)>>]
positions == [i \in {0, 1, 2} |-> <<50 * (i + 1), 50 * (i + 1)>>]

\* A datagram that decodes to a record whose id addresses a tag of the table
Valid(m) == m.kind = "record" /\ m.has_id /\ m.id \in TagIds

(* ------------------------------- tags ---------------------------------- *)
InitTag == [range_list |-> <<>>, rssi_list |-> ZeroRssi, quality |-> "unknown",
            anchor_count |-> 0, x |-> 0, y |-> 0, history |-> <<>>,
            last_update |-> StartTime, status |-> FALSE]

\* Tag.set_location(x, y): move the tag, stamp it and extend the capped trail
CapHistory(h) == IF Len(h) > HistoryCap THEN SubSeq(h, Len(h) - HistoryCap + 1, Len(h)) ELSE h
SetLocation(tag, x, y, t) ==
    [tag EXCEPT !.x = x, !.y = y, !.last_update = t,
                !.history = CapHistory(Append(tag.history, <<x, y, t>>))]

\* Tag.is_active(timeout)
IsActive(tag, timeout, t) == (t - tag.last_update) < timeout

(* ------------------------------ receiver ------------------------------- *)
\* time.time() moves on.  The clock counts whole seconds and handling one
\* datagram is short against a second, so it moves only while the receive
\* thread is between datagrams.
Tick ==
    /\ now < StartTime + MaxElapsed
    /\ ipc \in {"loop", "recv", "exited"}
    /\ now' = now + OneSecond
    /\ UNCHANGED <<tags, recvVars, ingestVars, stopVars, renderVars, mapVars>>

\* The datagrams have stopped arriving and time.time() moves on, until the
\* connection timeout has gone by since the last one
Silence ==
    /\ Len(arrivals) = MaxPackets
    /\ ipc \in {"loop", "recv", "exited"}
    /\ now - last_packet_time < DefaultTimeout
    /\ now' = now + OneSecond
    /\ UNCHANGED <<tags, recvVars, ingestVars, stopVars, renderVars, mapVars>>

\* is_connected(timeout)
IsConnectedInclusive(timeout) == (now - last_packet_time) <= timeout
IsConnected(timeout) == (now - last_packet_time) < timeout

\* The receive thread goes back to the head of its loop; data keeps the last
\* datagram until the next one arrives
BackToLoopEnds ==
    /\ ipc' = "exited"
    /\ UNCHANGED <<msg, tagsBefore>>
BackToLoop ==
    /\ ipc' = "loop"
    /\ UNCHANGED <<msg, tagsBefore>>

\* while self.running:
LoopCheck ==
    /\ ipc = "loop"
    /\ ipc' = IF running THEN "recv" ELSE "exited"
    /\ UNCHANGED <<tags, recvVars, msg, tagsBefore, arrivals, now, stopVars, renderVars, mapVars>>

\* recvfrom returns a datagram; it is counted and time-stamped
CountOnlyValid(m) == IF Valid(m) THEN packets_received + 1 ELSE packets_received
CountReceived(m) == packets_received + 1
RecvDatagram ==
    /\ ipc = "recv"
    /\ ~sock_closed
    /\ Len(arrivals) < MaxPackets
    /\ \E m \in Datagrams :
        /\ msg' = m
        /\ packets_received' = CountReceived(m)
        /\ arrivals' = Append(arrivals, [t |-> now, valid |-> Valid(m), snap |-> FALSE])
    /\ second_counter' = second_counter + 1
    /\ last_packet_time' = now
    /\ tagsBefore' = tags
    /\ ipc' = "window"
    /\ UNCHANGED <<tags, running, packets_per_second, last_second, error_count,
                   sock_closed, now, stopVars, renderVars, mapVars>>

\* recvfrom returns no datagram: socket.timeout after 0.1 s on the open
\* socket (continue), OSError on a closed one (swallowed by the bare except)
RecvNothingResetsRate ==
    /\ ipc = "recv"
    /\ ipc' = "loop"
    /\ packets_per_second' =
          IF now - last_packet_time >= OneSecond THEN 0 ELSE packets_per_second
    /\ UNCHANGED <<tags, running, packets_received, last_packet_time, last_second,
                   second_counter, error_count, sock_closed, msg, tagsBefore, arrivals,
                   now, stopVars, renderVars, mapVars>>
RecvNothing ==
    /\ ipc = "recv"
    /\ ipc' = "loop"
    /\ UNCHANGED <<tags, recvVars, msg, tagsBefore, arrivals, now, stopVars, renderVars, mapVars>>

\* once a second has gone by, snapshot and reset the current-second counter
MarkSnap(log) == [log EXCEPT ![Len(log)].snap = TRUE]
\* self.packets_per_second = self.second_counter
SnapshotBeforeCount == second_counter - 1
SnapshotValue == second_counter
Window ==
    /\ ipc = "window"
    /\ IF now - last_second >= OneSecond
       THEN /\ packets_per_second' = SnapshotValue
            /\ second_counter' = 0
            /\ last_second' = now
            /\ arrivals' = MarkSnap(arrivals)
       ELSE UNCHANGED <<packets_per_second, second_counter, last_second, arrivals>>
    /\ ipc' = "decode"
    /\ UNCHANGED <<tags, running, packets_received, last_packet_time, error_count,
                   sock_closed, msg, tagsBefore, now, stopVars, renderVars, mapVars>>

\* data.decode('utf-8'): bytes that are not UTF-8 raise into the loop's bare
\* except, which passes
Decode ==
    /\ ipc = "decode"
    /\ IF msg.kind = "bad_utf8"
       THEN BackToLoop
       ELSE ipc' = "parse" /\ UNCHANGED <<msg, tagsBefore>>
    /\ UNCHANGED <<tags, recvVars, arrivals, now, stopVars, renderVars, mapVars>>

\* json.loads, data.get('id', -1) and the range test of _process_data; a
\* failure raises into _process_data's bare except, which passes
ParseCountsOutOfRange ==
    /\ ipc = "parse"
    /\ IF msg.kind = "record" /\ InRange(PktId(msg))
       THEN ipc' = "w_range" /\ error_count' = error_count /\ UNCHANGED <<msg, tagsBefore>>
       ELSE BackToLoop /\ error_count' = error_count + 1
    /\ UNCHANGED <<tags, running, packets_received, packets_per_second, last_packet_time,
                   last_second, second_counter, sock_closed, arrivals, now, stopVars,
                   renderVars, mapVars>>
Parse ==
    /\ ipc = "parse"
    /\ IF msg.kind = "record" /\ InRange(PktId(msg))
       THEN ipc' = "w_range" /\ UNCHANGED <<msg, tagsBefore>>
       ELSE BackToLoop
    /\ UNCHANGED <<tags, recvVars, arrivals, now, stopVars, renderVars, mapVars>>

\* One assignment to the addressed tag
WriteTag(from, to, newtag) ==
    /\ ipc = from
    /\ tags' = [tags EXCEPT ![TagIndex(PktId(msg))] = newtag]
    /\ ipc' = to
    /\ UNCHANGED <<recvVars, msg, tagsBefore, arrivals, now, stopVars, renderVars, mapVars>>

CurTag == tags[TagIndex(PktId(msg))]

\* tag.range_list = data.get('range', [])
WRange == WriteTag("w_range", "w_rssi", [CurTag EXCEPT !.range_list = PktRange(msg)])
\* tag.rssi_list = data.get('rssi', [0] * 8)
WRssi == WriteTag("w_rssi", "w_quality", [CurTag EXCEPT !.rssi_list = PktRssi(msg)])
\* tag.quality = "good"
WQuality == WriteTag("w_quality", "w_anchor", [CurTag EXCEPT !.quality = "good"])
\* tag.anchor_count = 4
WAnchor == WriteTag("w_anchor", "w_loc", [CurTag EXCEPT !.anchor_count = AnchorCountGood])

\* if tag_id in positions: tag.set_location(*positions[tag_id])
WLocation ==
    /\ ipc = "w_loc"
    /\ IF PktId(msg) \in DOMAIN positions
       THEN /\ tags' = [tags EXCEPT ![TagIndex(PktId(msg))] =
                           SetLocation(CurTag, positions[PktId(msg)][1],
                                       positions[PktId(msg)][2], now)]
            /\ ipc' = "w_status"
       ELSE /\ tags' = tags
            /\ ipc' = "p_print"
    /\ UNCHANGED <<recvVars, msg, tagsBefore, arrivals, now, stopVars, renderVars, mapVars>>

\* tag.status = True
WStatus == WriteTag("w_status", "p_print", [CurTag EXCEPT !.status = TRUE])

\* if self.packets_received % 100 == 0: print(...); _process_data returns
PPrint ==
    /\ ipc = "p_print"
    /\ tags' = tags
    /\ BackToLoop
    /\ UNCHANGED <<recvVars, arrivals, now, stopVars, renderVars, mapVars>>

Ingest ==
    \/ LoopCheck \/ RecvDatagram \/ RecvNothing \/ Window
    \/ Decode \/ Parse \/ WRange \/ WRssi \/ WQuality \/ WAnchor \/ WLocation
    \/ WStatus \/ PPrint

\* get_statistics()
GetStatistics ==
    [packets_received |-> packets_received,
     packets_per_second |-> packets_per_second,
     error_count |-> error_count,
     uptime |-> 0,
     connected |-> IsConnected(DefaultTimeout)]

(* ------------------------------- stop() -------------------------------- *)
\* self.running = False
StopKeepsRunning == running
StopFlag == FALSE
StopBegin ==
    /\ spc = "idle"
    /\ stop_calls < MaxStops
    /\ running' = StopFlag
    /\ spc' = "join"
    /\ UNCHANGED <<tags, packets_received, packets_per_second, last_packet_time,
                   last_second, second_counter, error_count, sock_closed,
                   ingestVars, now, stop_calls, closed_in_recv, renderVars, mapVars>>

\* if self.thread.is_alive(): self.thread.join(timeout=1.0)
\* join returns once the thread has exited or the second has run out
StopJoin ==
    /\ spc = "join"
    /\ spc' = "close"
    /\ UNCHANGED <<tags, recvVars, ingestVars, now, stop_calls, closed_in_recv, renderVars, mapVars>>

\* self.sock.close(): closing a closed socket does nothing
StopClose ==
    /\ spc = "close"
    /\ sock_closed' = TRUE
    /\ closed_in_recv' = (closed_in_recv \/ (ipc = "recv" /\ ~sock_closed))
    /\ stop_calls' = stop_calls + 1
    /\ spc' = "idle"
    /\ UNCHANGED <<tags, running, packets_received, packets_per_second,
                   last_packet_time, last_second, second_counter, error_count,
                   ingestVars, now, renderVars, mapVars>>

Stop == StopBegin \/ StopJoin \/ StopClose

(* ------------------------------ renderer ------------------------------- *)
\* the session's scale_params and the screen height of config.py
cm2p == 2
x_offset == 5
y_offset == 5
SCREEN_Y == 1000
TAG_TIMEOUT == 2
SPEED_CALC_METHOD == "both"

\* The scale parameters a renderer may be constructed with: a positive scale
\* and offsets that are zero or the session's
ScaleParams == [cm2p : 1 .. MaxScale, x_offset : {0, x_offset}, y_offset : {0, y_offset}]
SessionScale == [cm2p |-> cm2p, x_offset |-> x_offset, y_offset |-> y_offset]

\* cm_to_pixels(x_cm, y_cm)
CmToPixelsNoFlip(x_cm, y_cm) ==
    <<x_cm * scale_params.cm2p + scale_params.x_offset,
      y_cm * scale_params.cm2p + scale_params.y_offset>>
CmToPixels(x_cm, y_cm) ==
    <<x_cm * scale_params.cm2p + scale_params.x_offset,
      SCREEN_Y - (y_cm * scale_params.cm2p + scale_params.y_offset)>>

\* cm_to_pixels called once on two points of the tracking plane
Coords == (0 - MaxCoord) .. MaxCoord
WorldPoints == Coords \X Coords
MapPoints ==
    /\ world = <<>>
    /\ \E p \in WorldPoints, q \in WorldPoints :
        /\ world' = <<p, q>>
        /\ pixels' = <<CmToPixels(p[1], p[2]), CmToPixels(q[1], q[2])>>
    /\ UNCHANGED <<tags, recvVars, ingestVars, now, stopVars, renderVars, scale_params>>

\* get_quality_color(quality): quality_colors.get(quality, 'gray')
GetQualityColor(quality) ==
    CASE quality = "excellent" -> "green"
      [] quality = "good" -> "blue"
      [] quality = "fair" -> "orange"
      [] quality = "poor" -> "red"
      [] OTHER -> "gray"

\* Answers of the collaborators; present = FALSE is Python's None
NoLap == [present |-> FALSE, is_racing |-> FALSE, race_finished |-> FALSE,
          current_lap |-> 0, total_laps |-> 0]
LapOptions == {NoLap,
               [present |-> TRUE, is_racing |-> TRUE, race_finished |-> FALSE,
                current_lap |-> 1, total_laps |-> 3],
               [present |-> TRUE, is_racing |-> FALSE, race_finished |-> TRUE,
                current_lap |-> 3, total_laps |-> 3]}
NoSpeed == [present |-> FALSE, instantaneous |-> 0, average |-> 0]
SpeedOptions == {NoSpeed, [present |-> TRUE, instantaneous |-> 7, average |-> 6]}
NoCollision == [present |-> FALSE, is_in_collision |-> FALSE, points |-> 0,
                total_collisions |-> 0, initiated |-> 0, received |-> 0]
CollisionOptions == {NoCollision,
                     [present |-> TRUE, is_in_collision |-> TRUE, points |-> -5,
                      total_collisions |-> 1, initiated |-> 1, received |-> 0]}
NoQuery == [lap |-> NoLap, speed |-> NoSpeed, collision |-> NoCollision]

\* One line of a tag's label
Seg(kind, a, b) == [seg |-> kind, a |-> a, b |-> b]

\* draw_tag_trail(tag): the polyline through the history, from two samples on
DrawTagTrail(tag) ==
    IF Len(tag.history) < 2 THEN <<>>
    ELSE [k \in 1 .. Len(tag.history) |-> CmToPixels(tag.history[k][1], tag.history[k][2])]

\* the lap and speed lines of the label
LapLines(lap_info) ==
    IF ~lap_info.present THEN <<>>
    ELSE IF lap_info.is_racing THEN <<Seg("lap", lap_info.current_lap, lap_info.total_laps)>>
    ELSE IF lap_info.race_finished THEN <<Seg("finished", 0, 0)>>
    ELSE <<>>
SpeedLinesUnguarded(speed_info) ==
    IF SPEED_CALC_METHOD = "both"
         THEN <<Seg("speed_both", speed_info.instantaneous, speed_info.average)>>
    ELSE IF SPEED_CALC_METHOD = "instantaneous"
         THEN <<Seg("speed_inst", speed_info.instantaneous, 0)>>
    ELSE <<Seg("speed_avg", speed_info.average, 0)>>
SpeedLines(speed_info) ==
    IF ~speed_info.present THEN <<>>
    ELSE IF SPEED_CALC_METHOD = "both"
         THEN <<Seg("speed_both", speed_info.instantaneous, speed_info.average)>>
    ELSE IF SPEED_CALC_METHOD = "instantaneous"
         THEN <<Seg("speed_inst", speed_info.instantaneous, 0)>>
    ELSE <<Seg("speed_avg", speed_info.average, 0)>>

\* draw_tag(tag, lap_info, speed_info, collision_info): the layers of one tag
DrawTag(id, tag, lap_info, speed_info, collision_info) ==
    [id |-> id,
     pixel |-> CmToPixels(tag.x, tag.y),
     color |-> GetQualityColor(tag.quality),
     trail |-> DrawTagTrail(tag),
     ring |-> (collision_info.present /\ collision_info.is_in_collision),
     label |-> <<Seg("pos", tag.x, tag.y)>> \o LapLines(lap_info) \o SpeedLines(speed_info)]

\* What the race collaborator's get_leaderboard() may return
BoardEntries == [car_id : 0 .. 1, current_lap : {1}, total_laps : {3},
                 total_time : {0}, race_finished : BOOLEAN]
Boards == UNION {[1 .. n -> BoardEntries] : n \in 0 .. MaxBoard}
CollisionTables == [0 .. 1 -> CollisionOptions]
NoCollisionTable == [c \in 0 .. 1 |-> NoCollision]

\* The rows of draw_leaderboard: enumerate(leaderboard), position = idx + 1
PositionZeroBased(idx) == idx - 1
Position(idx) == idx
LeaderboardRows(leaderboard, cinfo) ==
    [idx \in 1 .. Len(leaderboard) |->
        [kind |-> "row",
         position |-> Position(idx),
         car |-> leaderboard[idx].car_id,
         finished |-> leaderboard[idx].race_finished,
         lap |-> <<leaderboard[idx].current_lap, leaderboard[idx].total_laps>>,
         total_time |-> leaderboard[idx].total_time,
         points |-> IF cinfo[leaderboard[idx].car_id].present
                    THEN cinfo[leaderboard[idx].car_id].points ELSE 0]]

\* The lines of the collision panel: one per entry with collision info
RECURSIVE CollisionLinesForAll(_, _)
CollisionLinesForAll(leaderboard, cinfo) ==
    IF leaderboard = <<>> THEN <<>>
    ELSE LET c == cinfo[Head(leaderboard).car_id]
             rest == CollisionLinesForAll(Tail(leaderboard), cinfo)
         IN <<[kind |-> "collision", car |-> Head(leaderboard).car_id,
               total |-> c.total_collisions, initiated |-> c.initiated,
               received |-> c.received]>> \o rest
RECURSIVE CollisionLines(_, _)
CollisionLines(leaderboard, cinfo) ==
    IF leaderboard = <<>> THEN <<>>
    ELSE LET c == cinfo[Head(leaderboard).car_id]
             rest == CollisionLines(Tail(leaderboard), cinfo)
         IN IF c.present
            THEN <<[kind |-> "collision", car |-> Head(leaderboard).car_id,
                    total |-> c.total_collisions, initiated |-> c.initiated,
                    received |-> c.received]>> \o rest
            ELSE rest

\* draw_leaderboard(race_manager, collision_detector)
DrawLeaderboard(leaderboard, cinfo) ==
    [rows |-> LeaderboardRows(leaderboard, cinfo),
     collisions |-> CollisionLines(leaderboard, cinfo)]

\* draw_race_status(race_manager)
RaceStatusOptions == {[active |-> FALSE, started |-> FALSE, start_time |-> 0],
                      [active |-> TRUE, started |-> FALSE, start_time |-> 0],
                      [active |-> TRUE, started |-> TRUE, start_time |-> StartTime]}
DrawRaceStatus(race) ==
    IF race.active
    THEN IF race.started THEN Seg("in_progress", now - race.start_time, 0)
         ELSE Seg("in_progress_untimed", 0, 0)
    ELSE Seg("waiting", 0, 0)

NoPanel == [status |-> Seg("none", 0, 0), rows |-> <<>>, collisions |-> <<>>]

\* render_frame up to the tag loop: clear the axes, draw the grid, the
\* tracking area, the start line and the anchors (all fixed for the session)
RenderBegin ==
    /\ rpc = "idle"
    /\ frames < MaxFrames
    /\ frame' = <<>>
    /\ panel' = NoPanel
    /\ lb' = <<>>
    /\ collision_infos' = NoCollisionTable
    /\ ri' = 0
    /\ rpc' = "check"
    /\ UNCHANGED <<tags, recvVars, ingestVars, now, stopVars, mapVars, query, frames>>

\* for tag in tags: if tag.status ...
StatusIgnored(tag) == TRUE
StatusTest(tag) == tag.status
RenderCheckWaits ==
    /\ rpc = "check"
    /\ ri < NumTags
    /\ ipc \notin {"w_range", "w_rssi", "w_quality", "w_anchor", "w_loc", "w_status"}
    /\ IF StatusTest(tags[ri])
       THEN rpc' = "active" /\ ri' = ri
       ELSE rpc' = "check" /\ ri' = ri + 1
    /\ UNCHANGED <<tags, recvVars, ingestVars, now, stopVars, mapVars, query, frame, lb, panel, frames, collision_infos>>
RenderCheck ==
    /\ rpc = "check"
    /\ ri < NumTags
    /\ IF StatusTest(tags[ri])
       THEN rpc' = "active" /\ ri' = ri
       ELSE rpc' = "check" /\ ri' = ri + 1
    /\ UNCHANGED <<tags, recvVars, ingestVars, now, stopVars, mapVars, query, frame, lb, panel, frames, collision_infos>>

\* ... and tag.is_active(TAG_TIMEOUT): then ask the three collaborators
RenderActive ==
    /\ rpc = "active"
    /\ IF IsActive(tags[ri], TAG_TIMEOUT, now)
       THEN /\ \E l \in LapOptions, s \in SpeedOptions, c \in CollisionOptions :
                 query' = [lap |-> l, speed |-> s, collision |-> c]
            /\ rpc' = "draw"
            /\ ri' = ri
       ELSE /\ query' = query
            /\ rpc' = "check"
            /\ ri' = ri + 1
    /\ UNCHANGED <<tags, recvVars, ingestVars, now, stopVars, mapVars, frame, lb, panel, frames, collision_infos>>

\* self.draw_tag(tag, lap_info, speed_info, collision_info)
RenderDrawClearsStatus ==
    /\ rpc = "draw"
    /\ frame' = Append(frame, DrawTag(ri, tags[ri], query.lap, query.speed, query.collision))
    /\ tags' = [tags EXCEPT ![ri].status = FALSE]
    /\ query' = NoQuery
    /\ ri' = ri + 1
    /\ rpc' = "check"
    /\ UNCHANGED <<recvVars, ingestVars, now, stopVars, mapVars, lb, panel, frames, collision_infos>>
RenderDraw ==
    /\ rpc = "draw"
    /\ frame' = Append(frame, DrawTag(ri, tags[ri], query.lap, query.speed, query.collision))
    /\ query' = NoQuery
    /\ ri' = ri + 1
    /\ rpc' = "check"
    /\ UNCHANGED <<tags, recvVars, ingestVars, now, stopVars, mapVars, lb, panel, frames, collision_infos>>

\* draw_race_status, draw_leaderboard and the refresh of the display
RenderPanels ==
    /\ rpc = "check"
    /\ ri = NumTags
    /\ \E board \in Boards, cinfo \in CollisionTables, race \in RaceStatusOptions :
        /\ lb' = board
        /\ collision_infos' = cinfo
        /\ panel' = [status |-> DrawRaceStatus(race)] @@ DrawLeaderboard(board, cinfo)
    /\ frames' = frames + 1
    /\ rpc' = "idle"
    /\ UNCHANGED <<tags, recvVars, ingestVars, now, stopVars, mapVars, ri, query, frame>>

Render == RenderBegin \/ RenderCheck \/ RenderActive \/ RenderDraw \/ RenderPanels

(* --------------------------- specifications ---------------------------- *)
\* The state after UDPReceiver.__init__ and MatplotlibRenderer.__init__
InitState ==
    /\ tags = [i \in TagIds |-> InitTag]
    /\ running = TRUE
    /\ packets_received = 0
    /\ packets_per_second = 0
    /\ last_packet_time = 0
    /\ last_second = StartTime
    /\ second_counter = 0
    /\ error_count = 0
    /\ sock_closed = FALSE
    /\ ipc = "loop"
    /\ msg = NoMsg
    /\ tagsBefore = [i \in TagIds |-> InitTag]
    /\ arrivals = <<>>
    /\ now = StartTime
    /\ spc = "idle"
    /\ stop_calls = 0
    /\ closed_in_recv = FALSE
    /\ rpc = "idle"
    /\ ri = 0
    /\ query = NoQuery
    /\ frame = <<>>
    /\ lb = <<>>
    /\ panel = NoPanel
    /\ frames = 0
    /\ collision_infos = NoCollisionTable
    /\ world = <<>>
    /\ pixels = <<>>

Init == InitState /\ scale_params = SessionScale

Next == Tick \/ Ingest \/ Stop \/ Render
Spec == Init /\ [][Next]_vars

\* The receiver and the caller of stop(), while no render tick runs
NextNet == Tick \/ Ingest \/ Stop
SpecNet == Init /\ [][NextNet]_vars

\* stop() against the receive thread, both scheduled: the receive thread
\* keeps taking steps and a stop() that has begun runs to its end.  The
\* clock plays no part in the shutdown.
NextStop == Ingest \/ Stop
SpecStopFair == Init /\ [][NextStop]_vars /\ WF_vars(Ingest) /\ WF_vars(StopJoin \/ StopClose)

\* The receiver through its datagrams and through the silence after the
\* last of them
NextSilence == Tick \/ Silence \/ Ingest \/ Stop
SpecSilence == Init /\ [][NextSilence]_vars

\* The tag loop of a render tick running against the receive thread
NextRender == Tick \/ Ingest \/ RenderBegin \/ RenderCheck \/ RenderActive \/ RenderDraw
SpecRender == Init /\ [][NextRender]_vars

\* A render tick on a quiet table: the panels over every collaborator answer
NextPanel == Tick \/ RenderBegin \/ RenderCheck \/ RenderPanels
SpecPanel == Init /\ [][NextPanel]_vars

\* cm_to_pixels on its own, over every scale the renderer may be built with
InitMap == InitState /\ scale_params \in ScaleParams
NextMap == MapPoints
SpecMap == InitMap /\ [][NextMap]_vars

(* ------------------------------ properties ----------------------------- *)
\* A record whose id is missing or addresses no tag of the table
OutOfRange(m) == m.kind = "record" /\ (~m.has_id \/ m.id \notin TagIds)

\* The index of the last datagram before the newest one at which the rate
\* window was snapshot, 0 when there is none
PrevSnap(log) ==
    LET S == {k \in 1 .. (Len(log) - 1) : log[k].snap}
    IN IF S = {} THEN 0 ELSE CHOOSE k \in S : \A j \in S : j <= k

\* C1: a packet whose identity is in [0, tagCount) is taken into
\* _process_data's update, and when the update is finished the addressed
\* tag carries the packet's range and rssi, quality "good" and anchor count
\* 4, while every other tag is as it was when the packet arrived.
C1_ValidPacketApplied ==
    [][/\ (ipc = "parse" /\ Valid(msg)) => ipc' \in {"parse", "w_range"}
       /\ ipc' = "p_print" =>
            /\ Valid(msg')
            /\ msg'.has_range => tags'[msg'.id].range_list = RangeSample
            /\ msg'.has_rssi => tags'[msg'.id].rssi_list = RssiSample
            /\ tags'[msg'.id].quality = "good"
            /\ tags'[msg'.id].anchor_count = 4
            /\ \A j \in TagIds \ {msg'.id} : tags'[j] = tagsBefore'[j]]_vars

\* The scenario {"id":1,"range":[10,20,30,40],"rssi":[1,2,3,4]} has been applied
C1_Witness ==
    /\ ipc = "p_print"
    /\ msg = [kind |-> "record", has_id |-> TRUE, id |-> 1,
              has_range |-> TRUE, has_rssi |-> TRUE]
    /\ tags[1].range_list = <<10, 20, 30, 40>>
    /\ tags[1].rssi_list = <<1, 2, 3, 4>>
    /\ tags[1].quality = "good"
    /\ tags[1].anchor_count = 4

\* C3: while and after a packet whose identity is outside [0, tagCount)
\* (a missing identity included) is handled, every tag is what it was when
\* the packet arrived, and the receive thread goes back to the head of its
\* loop.
C3_OutOfRangeIgnored ==
    [][OutOfRange(msg) =>
         /\ tags = tagsBefore
         /\ tags' = tagsBefore
         /\ ipc = "parse" => ipc' \in {"parse", "loop"}]_vars

\* A packet without identity has been dropped after a tag had been updated
C3_Witness ==
    /\ ipc = "recv"
    /\ running
    /\ OutOfRange(msg)
    /\ ~msg.has_id
    /\ Len(arrivals) = 2
    /\ tags[1].status
    /\ tags = tagsBefore

\* C4: when a datagram that is not UTF-8 or not a structured record is
\* dropped, the error counter goes up by one and no tag is changed.
C4_MalformedCounted ==
    [][(msg.kind \in {"bad_utf8", "bad_json"} /\ ipc \in {"decode", "parse"} /\ ipc' = "loop")
         => (error_count' = error_count + 1 /\ tags' = tagsBefore)]_vars

\* C5 as stated: is_connected() is true exactly when a valid packet arrived
\* less than the timeout ago.
C5_ConnectedIffValidPacket ==
    IsConnected(DefaultTimeout) <=>
        \E k \in DOMAIN arrivals :
            arrivals[k].valid /\ now - arrivals[k].t < DefaultTimeout

\* C5, amended: is_connected() is true exactly when a datagram of any kind,
\* valid or not, arrived less than the timeout ago.
C5_ConnectedIffAnyDatagram ==
    IsConnected(DefaultTimeout) <=>
        \E k \in DOMAIN arrivals : now - arrivals[k].t < DefaultTimeout

\* Only an invalid datagram has arrived and the receiver reports a connection
C5_Witness ==
    /\ arrivals # <<>>
    /\ \A k \in DOMAIN arrivals : ~arrivals[k].valid
    /\ IsConnected(DefaultTimeout)

\* C6 as stated: at any time packets_per_second is the number of valid
\* datagrams received in the second before.
C6_RateIsLastSecondCount ==
    packets_per_second =
        Cardinality({k \in DOMAIN arrivals :
                        /\ arrivals[k].valid
                        /\ now - OneSecond <= arrivals[k].t
                        /\ arrivals[k].t < now})

\* C6, amended: packets_per_second changes only in the window step of a
\* datagram that arrives at least one second after the previous snapshot,
\* and is then the number of datagrams of any kind received since that
\* snapshot, the arriving one included.
C6_RateIsCountSinceSnapshot ==
    [][/\ packets_per_second' # packets_per_second => (ipc = "window" /\ ipc' = "decode")
       /\ (ipc = "window" /\ ipc' = "decode") =>
            IF now - last_second >= OneSecond
            THEN packets_per_second' = Len(arrivals) - PrevSnap(arrivals)
            ELSE packets_per_second' = packets_per_second]_vars

\* A snapshot that covers two datagrams, one of them invalid
C6_Witness ==
    /\ packets_per_second = 2
    /\ Len(arrivals) = 2
    /\ arrivals[2].snap
    /\ ~arrivals[1].valid

\* C7: packets_received never decreases and goes up by exactly one for
\* each datagram received, valid or not.
C7_ReceivedCountsEveryDatagram ==
    [][/\ packets_received' >= packets_received
       /\ packets_received' - packets_received = Len(arrivals') - Len(arrivals)]_vars

\* Two datagrams have been counted, one valid and one not
C7_Witness ==
    /\ packets_received = 2
    /\ arrivals[1].valid
    /\ ~arrivals[2].valid

RestOfUpdate(tag) ==
    LET id == PktId(msg)
        t1 == IF ipc = "w_range" THEN [tag EXCEPT !.range_list = PktRange(msg)] ELSE tag
        t2 == IF ipc \in {"w_range", "w_rssi"}
              THEN [t1 EXCEPT !.rssi_list = PktRssi(msg)] ELSE t1
        t3 == IF ipc \in {"w_range", "w_rssi", "w_quality"}
              THEN [t2 EXCEPT !.quality = "good"] ELSE t2
        t4 == IF ipc \in {"w_range", "w_rssi", "w_quality", "w_anchor"}
              THEN [t3 EXCEPT !.anchor_count = AnchorCountGood] ELSE t3
        t5 == IF ipc \in {"w_range", "w_rssi", "w_quality", "w_anchor", "w_loc"}
                 /\ id \in DOMAIN positions
              THEN SetLocation(t4, positions[id][1], positions[id][2], now) ELSE t4
    IN IF ipc \in {"w_range", "w_rssi", "w_quality", "w_anchor", "w_loc", "w_status"}
          /\ id \in DOMAIN positions
       THEN [t5 EXCEPT !.status = TRUE] ELSE t5

\* Tag i carries some values of the packet being applied and not yet all
Torn(i) ==
    /\ ipc \in {"w_rssi", "w_quality", "w_anchor", "w_loc", "w_status"}
    /\ TagIndex(PktId(msg)) = i
    /\ tags[i] # tagsBefore[i]
    /\ tags[i] # RestOfUpdate(tags[i])

\* The render loop is at a statement that reads tag i
ReaderAt(i) == rpc \in {"check", "active", "draw"} /\ ri = i

\* C2: the render thread is never about to read a tag that carries some
\* values of a packet being applied while others are still the old ones.
C2_NoTornRead == \A i \in TagIds : ~(ReaderAt(i) /\ Torn(i))

\* C9: a render tick goes on to draw a tag only if its status flag is true
\* and its last update is within TAG_TIMEOUT of now, and every layer added
\* to the frame is that of a tag so selected.
C9_DrawsOnlyActiveTags ==
    [][/\ (rpc # "draw" /\ rpc' = "draw") =>
            (tags[ri].status /\ now - tags[ri].last_update < TAG_TIMEOUT)
       /\ (frame' # frame /\ frame' # <<>>) =>
            /\ rpc = "draw"
            /\ tags[ri].status
            /\ Len(frame') = Len(frame) + 1
            /\ frame'[Len(frame')].id = ri]_vars

\* The tick has passed tag 1, whose status is true but whose last update is
\* too old, without drawing it, and tag 0, whose status is false
C9_Witness ==
    /\ rpc = "check"
    /\ ri > 1
    /\ tags[1].status
    /\ ~tags[0].status
    /\ now - tags[1].last_update >= TAG_TIMEOUT
    /\ frame = <<>>

\* C10: the leaderboard panel has one row per entry of the ranking the race
\* collaborator returned to the tick, in the same order, and the position
\* shown in a row is the 1-based index of its entry.
C10_RowsFollowRanking ==
    /\ Len(panel.rows) = Len(lb)
    /\ \A k \in 1 .. Len(lb) :
          /\ panel.rows[k].position = k
          /\ panel.rows[k].car = lb[k].car_id
          /\ panel.rows[k].finished = lb[k].race_finished

\* A tick has drawn the panel for a ranking of two different cars
C10_Witness ==
    /\ frames = 1
    /\ Len(lb) = 2
    /\ lb[1].car_id = 1
    /\ lb[2].car_id = 0
    /\ panel.rows[1].car = 1
    /\ panel.rows[2].position = 2

\* C11: for a positive scale and fixed offsets, cm_to_pixels returns
\* x_cm * scale + x_offset and SCREEN_Y - (y_cm * scale + y_offset); of two
\* points the one further right in centimetres is further right in pixels,
\* and the one further up in centimetres has the smaller pixel y.
C11_OrderKeptOnXFlippedOnY ==
    pixels # <<>> =>
        LET p == world[1]
            q == world[2]
            a == pixels[1]
            b == pixels[2]
        IN /\ a[1] = p[1] * scale_params.cm2p + scale_params.x_offset
           /\ a[2] = SCREEN_Y - (p[2] * scale_params.cm2p + scale_params.y_offset)
           /\ (p[1] < q[1]) <=> (a[1] < b[1])
           /\ (p[2] < q[2]) <=> (a[2] > b[2])
           /\ (p[1] = q[1]) <=> (a[1] = b[1])
           /\ (p[2] = q[2]) <=> (a[2] = b[2])

\* Two points that differ on both axes have been mapped at a scale above one
\* with both offsets set
C11_Witness ==
    /\ pixels # <<>>
    /\ world[1][1] < world[2][1]
    /\ world[1][2] < world[2][2]
    /\ world[1][2] < 0
    /\ scale_params.cm2p > 1
    /\ scale_params.x_offset > 0
    /\ scale_params.y_offset > 0
    /\ pixels[1][1] < pixels[2][1]
    /\ pixels[1][2] > pixels[2][2]

\* C12: only the stop flag ends the receive loop.  While running is still
\* true the thread has not left the loop, whatever datagrams and timeouts
\* came before; the thread leaves only at the loop test, with running
\* false; and a valid packet whose handling finishes has been applied to
\* its tag, however many bad datagrams preceded it.
C12_OnlyStopEndsLoop ==
    /\ [](running => ipc # "exited")
    /\ [][(ipc' = "exited" /\ ipc # "exited") => (~running /\ ipc = "loop")]_vars
    /\ []((ipc = "p_print" /\ Valid(msg)) =>
            /\ tags[msg.id].range_list = PktRange(msg)
            /\ tags[msg.id].rssi_list = PktRssi(msg)
            /\ tags[msg.id].quality = "good"
            /\ tags[msg.id].anchor_count = AnchorCountGood
            /\ (msg.id \in DOMAIN positions => tags[msg.id].status))

\* With stop never called, a datagram that was not valid has been handled
\* and the valid packet after it has been applied to tag 1
C12_Witness ==
    /\ running
    /\ spc = "idle"
    /\ stop_calls = 0
    /\ Len(arrivals) = 2
    /\ ~arrivals[1].valid
    /\ ipc = "p_print"
    /\ Valid(msg)
    /\ msg.id = 1
    /\ tags[1].status
    /\ tags[1].range_list = RangeSample

\* C13: neither thread waits on the other.  A render tick that has begun
\* can take its next step whatever the receive thread is doing, and the
\* receive thread, until it has left its loop, can take its next step
\* whatever the render thread is doing: no state is a deadlock of either.
C13_NeitherThreadWaits ==
    /\ (rpc # "idle") => ENABLED (RenderCheck \/ RenderActive \/ RenderDraw \/ RenderPanels)
    /\ (ipc # "exited") => ENABLED Ingest

\* The render loop is about to draw tag 1 while the receive thread is in the
\* middle of an update of tag 1
C13_Witness ==
    /\ rpc = "draw"
    /\ ri = 1
    /\ ipc = "w_loc"
    /\ msg.id = 1

\* C14: a render tick never writes the tag table.  Every step that moves
\* the render thread leaves the table as it was, and every step that
\* changes the table is one of the receive thread's assignments.
C14_RenderOnlyReads ==
    [][/\ (renderVars' # renderVars) => (tags' = tags)
       /\ (tags' # tags) =>
            /\ ipc \in {"w_range", "w_rssi", "w_quality", "w_anchor", "w_loc", "w_status"}
            /\ ipc' # ipc
            /\ \A i \in TagIds : i # TagIndex(PktId(msg)) => tags'[i] = tags[i]]_vars

\* The tag loop of a tick has drawn tag 1 and gone through the whole table,
\* and tag 1 is still as the receiver's update left it
C14_Witness ==
    /\ rpc = "check"
    /\ ri = NumTags
    /\ Len(frame) = 1
    /\ frame[1].id = 1
    /\ tags[1].status
    /\ tags[1].quality = "good"
    /\ tags[1].range_list = RangeSample

\* C15: a record whose id is missing or outside the table is dropped
\* silently.  Receiving it adds one to packets_received, and no step of its
\* handling changes error_count.
C15_OutOfRangeNotAnError ==
    [][/\ (ipc = "recv" /\ ipc' = "window" /\ OutOfRange(msg')) =>
            (packets_received' = packets_received + 1 /\ error_count' = error_count)
       /\ (ipc \in {"window", "decode", "parse"} /\ OutOfRange(msg)) =>
            (error_count' = error_count /\ packets_received' = packets_received)]_vars

\* A record addressed past the end of the table has been handled: it is
\* counted as received and the error counter is still zero
C15_Witness ==
    /\ ipc = "loop"
    /\ msg.kind = "record"
    /\ msg.has_id
    /\ msg.id = NumTags
    /\ packets_received = 1
    /\ error_count = 0
    /\ tags = tagsBefore

\* The label lines that come from the lap and from the speed collaborator
LapSegs == {"lap", "finished"}
SpeedSegs == {"speed_both", "speed_inst", "speed_avg"}

\* C16: when a collaborator has no information for an active tag, draw_tag
\* still draws the tag: its layer has the body marker at the tag's pixel
\* position and the position line of the label.  Only what the missing
\* answer would have added is left out (the lap line, the speed line or the
\* collision ring), what the other answers add is there, and the tag loop
\* goes on to the next tag.
C16_MissingInfoStillDraws ==
    [][(rpc = "draw" /\ rpc' # "draw") =>
         LET e == frame'[Len(frame')]
             t == tags[ri]
             segs == {e.label[k].seg : k \in 1 .. Len(e.label)}
         IN /\ Len(frame') = Len(frame) + 1
            /\ rpc' = "check"
            /\ ri' = ri + 1
            /\ e.id = ri
            /\ e.pixel = <<t.x * scale_params.cm2p + scale_params.x_offset,
                           SCREEN_Y - (t.y * scale_params.cm2p + scale_params.y_offset)>>
            /\ e.label[1] = Seg("pos", t.x, t.y)
            /\ (segs \cap LapSegs # {}) <=>
                 (query.lap.present /\ (query.lap.is_racing \/ query.lap.race_finished))
            /\ (segs \cap SpeedSegs # {}) <=> query.speed.present
            /\ e.ring <=> (query.collision.present /\ query.collision.is_in_collision)]_vars

\* The tag loop has finished after drawing tag 1 with no answer from any of
\* the three collaborators: the layer has the position line only and no ring
C16_Witness ==
    /\ rpc = "check"
    /\ ri = NumTags
    /\ Len(frame) = 1
    /\ frame[1].id = 1
    /\ frame[1].pixel = <<positions[1][1] * cm2p + x_offset,
                        SCREEN_Y - (positions[1][2] * cm2p + y_offset)>>
    /\ frame[1].label = <<Seg("pos", positions[1][1], positions[1][2])>>
    /\ ~frame[1].ring

\* The ranking entries whose car the collision collaborator knows
Known(board, cinfo) == {k \in 1 .. Len(board) : cinfo[board[k].car_id].present}

\* C17: the points shown in a leaderboard row are the points the collision
\* collaborator reports for the row's car, and zero when it reports
\* nothing for that car.  Such a car still has its row; only its line in the
\* collision panel is missing, and every car with collision information has
\* one line there, in ranking order.
C17_PointsFromCollisions ==
    (frames > 0 /\ rpc = "idle") =>
        /\ Len(panel.rows) = Len(lb)
        /\ \A k \in 1 .. Len(lb) :
              /\ panel.rows[k].car = lb[k].car_id
              /\ panel.rows[k].points =
                    IF collision_infos[lb[k].car_id].present
                    THEN collision_infos[lb[k].car_id].points ELSE 0
        /\ Len(panel.collisions) = Cardinality(Known(lb, collision_infos))
        /\ \A j \in 1 .. Len(panel.collisions) :
              \E k \in Known(lb, collision_infos) :
                 /\ panel.collisions[j].car = lb[k].car_id
                 /\ Cardinality({i \in Known(lb, collision_infos) : i < k}) = j - 1

\* A tick has drawn the panel for a ranking of car 0, which has collision
\* information, and car 1, which has none
C17_Witness ==
    /\ frames = 1
    /\ rpc = "idle"
    /\ Len(lb) = 2
    /\ lb[1].car_id = 0
    /\ lb[2].car_id = 1
    /\ collision_infos[0].present
    /\ collision_infos[0].points # 0
    /\ ~collision_infos[1].present
    /\ panel.rows[1].points = collision_infos[0].points
    /\ panel.rows[2].points = 0
    /\ Len(panel.collisions) = 1
    /\ panel.collisions[1].car = 0

\* C18: when the handling of a valid packet finishes, a packet without an
\* rssi field has left the tag's rssi list at eight zeros and a packet
\* without a range field has left its range list empty; the values the tag
\* had before are replaced, not kept.
C18_MissingFieldsDefault ==
    (ipc = "p_print" /\ Valid(msg)) =>
        /\ ~msg.has_rssi =>
              /\ Len(tags[msg.id].rssi_list) = RssiLen
              /\ \A k \in 1 .. RssiLen : tags[msg.id].rssi_list[k] = 0
        /\ ~msg.has_range => tags[msg.id].range_list = <<>>
        /\ msg.has_rssi => tags[msg.id].rssi_list = RssiSample
        /\ msg.has_range => tags[msg.id].range_list = RangeSample

\* Tag 1 had the range and rssi of an earlier packet; a packet without
\* either field has been applied and the tag now has the defaults
C18_Witness ==
    /\ ipc = "p_print"
    /\ Valid(msg)
    /\ msg.id = 1
    /\ ~msg.has_range
    /\ ~msg.has_rssi
    /\ tagsBefore[1].range_list = RangeSample
    /\ tagsBefore[1].rssi_list = RssiSample
    /\ tags[1].range_list = <<>>
    /\ tags[1].rssi_list = ZeroRssi

\* The tags of the table from identity 3 on: those the hard-coded positions
\* of _process_data leave out
Unpositioned == {i \in TagIds : i >= 3}

\* C19: only identities 0, 1 and 2 are ever given a position and an active
\* status.  A valid packet for a tag of identity 3 or above updates its
\* range, rssi, quality and anchor count, but the tag's position, history
\* and status stay as constructed, so with status false at the start it is
\* in no frame of any tick.
C19_HighTagsNeverDrawn ==
    \A i \in Unpositioned :
        /\ ~tags[i].status
        /\ tags[i].x = InitTag.x
        /\ tags[i].y = InitTag.y
        /\ tags[i].history = InitTag.history
        /\ \A k \in 1 .. Len(frame) : frame[k].id # i
        /\ (ipc = "p_print" /\ Valid(msg) /\ msg.id = i) =>
              /\ tags[i].range_list = PktRange(msg)
              /\ tags[i].rssi_list = PktRssi(msg)
              /\ tags[i].quality = "good"
              /\ tags[i].anchor_count = AnchorCountGood

\* The last tag of the table has taken a valid packet and the tag loop of a
\* tick has then gone through the whole table without drawing it
C19_Witness ==
    /\ NumTags - 1 \in Unpositioned
    /\ tags[NumTags - 1].quality = "good"
    /\ tags[NumTags - 1].range_list = RangeSample
    /\ tags[NumTags - 1].anchor_count = AnchorCountGood
    /\ ~tags[NumTags - 1].status
    /\ ipc = "loop"
    /\ rpc = "check"
    /\ ri = NumTags
    /\ \A k \in 1 .. Len(frame) : frame[k].id # NumTags - 1

\* The number of datagrams covered by the newest snapshot of the rate
\* window in the log: those after the snapshot before it, whatever their
\* age; 0 while no snapshot has been taken
CoveredByLastSnapshot(log) ==
    LET S == {k \in DOMAIN log : log[k].snap}
    IN IF S = {} THEN 0
       ELSE LET last == CHOOSE k \in S : \A j \in S : j <= k
                P == {j \in S : j < last}
                prev == IF P = {} THEN 0 ELSE CHOOSE k \in P : \A j \in P : j <= k
            IN last - prev

\* C20: the packets_per_second that get_statistics reports changes only
\* while an arriving datagram is handled.  At every moment it is the count
\* taken at the newest snapshot, which covers every datagram since the
\* snapshot before it however old; the passing of time never changes it,
\* and once above zero it never goes back to zero, not even when
\* is_connected() has become false.
C20_RateKeptWithoutArrivals ==
    /\ [](GetStatistics.packets_per_second = CoveredByLastSnapshot(arrivals))
    /\ [][/\ (GetStatistics'.packets_per_second # GetStatistics.packets_per_second) =>
               (ipc = "window" /\ Len(arrivals) > 0 /\ arrivals[Len(arrivals)].t = now)
          /\ (now' # now) =>
               GetStatistics'.packets_per_second = GetStatistics.packets_per_second
          /\ (GetStatistics.packets_per_second > 0) =>
               GetStatistics'.packets_per_second > 0]_vars

\* Two datagrams were counted at a snapshot, none has arrived for the
\* connection timeout since, and get_statistics reports the link as down
\* with the rate still at two
C20_Witness ==
    /\ GetStatistics.packets_per_second = 2
    /\ ~GetStatistics.connected
    /\ now - last_packet_time >= DefaultTimeout
    /\ Len(arrivals) = 2
    /\ arrivals[2].snap
    /\ arrivals[1].t < arrivals[2].t
    /\ ipc = "recv"

====
